---- MODULE Spec2Model ----
(***************************************************************************)
(* Model of data_table_collector.py: one run of main(), which parses the   *)
(* command line, downloads a table from the Seoul open API, saves it as    *)
(* CSV, renders it as an image and prints the two output paths.            *)
(*                                                                         *)
(* The run is a sequential program; every statement that talks to the      *)
(* outside world (argument parser, HTTP library, file system) is one       *)
(* action whose outcome is drawn from the outcomes that call can have.     *)
(***************************************************************************)
EXTENDS Integers, Sequences, FiniteSets, TLC

(***************************************************************************)
(* Bounds of the model.                                                    *)
(***************************************************************************)
\* longest "row" list a response carries
MaxLen == 3
\* --max-rows ranges over -MaxLimit .. MaxLimit
MaxLimit == 3

(***************************************************************************)
(* Program constants.                                                      *)
(***************************************************************************)
DEFAULT_SERVICE == "ListAirQualityByDistrictService"
DEFAULT_START_INDEX == 1
DEFAULT_END_INDEX == 5
SUCCESS_CODE == "INFO-000"
TIMEOUT == 30

(***************************************************************************)
(* Generic helpers.                                                        *)
(***************************************************************************)
Range(s) == {s[i] : i \in 1..Len(s)}

IsPrefix(s, t) == Len(s) <= Len(t) /\ \A i \in 1..Len(s) : s[i] = t[i]

Min(a, b) == IF a < b THEN a ELSE b

Max(a, b) == IF a > b THEN a ELSE b

SeqsUpTo(S, n) == UNION {[1..k -> S] : k \in 0..n}

(***************************************************************************)
(* Python values.  PyNone is Python's None, which dict.get returns for a   *)
(* missing key and json() returns for a JSON null.  Str is what an         *)
(* f-string does with a value.                                             *)
(***************************************************************************)
PyNone == "<None>"

Str(v) == IF v = PyNone THEN "None" ELSE v

(***************************************************************************)
(* Input domains.                                                          *)
(***************************************************************************)
Services == {DEFAULT_SERVICE, "OtherService"}

Codes == {SUCCESS_CODE, "INFO-200", "ERROR-500"}

Messages == {"OK", "No rows"}

\* the uniform records of a "row" list
Records == [MSRSTE_NM : {"Jongno", "Jung"}, PM10 : {"30"}]

RowLists == SeqsUpTo(Records, MaxLen)

\* the value stored under "row": key absent, JSON null, a value that is
\* neither null nor a list, or a list of records
RowFields ==
    [tag : {"absent", "null", "nonlist"}, items : {<< >>}]
    \cup [tag : {"list"}, items : RowLists]

(***************************************************************************)
(* A decoded JSON body.                                                    *)
(*   top     "mapping" when the body is a JSON object, else "nonmapping"   *)
(*   key     the one key of the wrapper object                             *)
(*   value   what is stored under that key: a falsy value (null, {}, [],   *)
(*           "", 0), a truthy value that is not an object, or an object    *)
(*   result  the "RESULT" entry: key absent, not an object, or an object   *)
(*   code, message   RESULT.CODE and RESULT.MESSAGE, PyNone when absent    *)
(*   row     the "row" entry                                               *)
(***************************************************************************)
Payloads ==
    [top : {"nonmapping"}, key : {DEFAULT_SERVICE}, value : {"falsy"},
     result : {"absent"}, code : {PyNone}, message : {PyNone},
     row : {[tag |-> "absent", items |-> << >>]}]
    \cup
    [top : {"mapping"}, key : Services, value : {"falsy", "nonmapping"},
     result : {"absent"}, code : {PyNone}, message : {PyNone},
     row : {[tag |-> "absent", items |-> << >>]}]
    \cup
    [top : {"mapping"}, key : Services, value : {"mapping"},
     result : {"absent", "nonmapping"}, code : {PyNone}, message : {PyNone},
     row : RowFields]
    \cup
    [top : {"mapping"}, key : Services, value : {"mapping"},
     result : {"mapping"}, code : Codes \cup {PyNone},
     message : Messages \cup {PyNone}, row : RowFields]

NoPayload ==
    [top |-> "none", key |-> DEFAULT_SERVICE, value |-> "falsy",
     result |-> "absent", code |-> PyNone, message |-> PyNone,
     row |-> [tag |-> "absent", items |-> << >>]]

Statuses == {200, 304, 404, 500}

\* a response: its status and whether its body is a JSON document
Responses == [status : Statuses, json : BOOLEAN]

NoResponse == [status |-> 0, json |-> FALSE]

MaxRowsArgs == (0 - MaxLimit)..MaxLimit

(***************************************************************************)
(* build_request_url: the URL as the sequence of the parts the f-string    *)
(* joins.                                                                  *)
(***************************************************************************)
build_request_url(api_key, service, start_index, end_index, payload_format) ==
    << "http://openAPI.seoul.go.kr:8088/", api_key, "/", payload_format, "/",
       service, "/", ToString(start_index), "/", ToString(end_index), "/" >>

(***************************************************************************)
(* _extract_rows.  The result is the exception raised (exc = "" when the   *)
(* function returns), the parts of its message, and the returned list.     *)
(***************************************************************************)
Raised(exc, msg) == [exc |-> exc, msg |-> msg, rows |-> << >>]

Returned(rows) == [exc |-> "", msg |-> << >>, rows |-> rows]

NoResult == [exc |-> "<not called>", msg |-> << >>, rows |-> << >>]

MSG_NO_SERVICE ==
    << "Unexpected API response: could not find service payload. ",
       "Check the service name or API key." >>

MSG_NO_ROW == << "API response does not include a 'row' field." >>

MSG_ROW_NOT_LIST == << "API response 'row' field is not a list." >>

MSG_NO_ATTRIBUTE == << "object has no attribute 'get'" >>

\* payload.get(service): the kind of value found, "absent" for None
service_payload(service, payload) ==
    IF payload.key = service THEN payload.value ELSE "absent"

\* service_payload.get("RESULT", {}).get("CODE") and .get("MESSAGE")
result_code(payload) ==
    IF payload.result = "mapping" THEN payload.code ELSE PyNone

result_message(payload) ==
    IF payload.result = "mapping" THEN payload.message ELSE PyNone

\* variant: the error message names the code only
_extract_rows_code_only(service, payload) ==
    IF payload.top # "mapping"
    THEN Raised("AttributeError", MSG_NO_ATTRIBUTE)
    ELSE IF service_payload(service, payload) \in {"absent", "falsy"}
    THEN Raised("SeoulOpenAPIError", MSG_NO_SERVICE)
    ELSE IF service_payload(service, payload) # "mapping"
    THEN Raised("AttributeError", MSG_NO_ATTRIBUTE)
    ELSE IF payload.result = "nonmapping"
    THEN Raised("AttributeError", MSG_NO_ATTRIBUTE)
    ELSE IF result_code(payload) # SUCCESS_CODE
    THEN Raised("SeoulOpenAPIError",
                << "API returned error ", Str(result_code(payload)) >>)
    ELSE IF payload.row.tag \in {"absent", "null"}
    THEN Raised("SeoulOpenAPIError", MSG_NO_ROW)
    ELSE IF payload.row.tag # "list"
    THEN Raised("SeoulOpenAPIError", MSG_ROW_NOT_LIST)
    ELSE Returned(payload.row.items)

\* variant: "if not rows" in place of "if rows is None"
_extract_rows_not_rows(service, payload) ==
    IF payload.top # "mapping"
    THEN Raised("AttributeError", MSG_NO_ATTRIBUTE)
    ELSE IF service_payload(service, payload) \in {"absent", "falsy"}
    THEN Raised("SeoulOpenAPIError", MSG_NO_SERVICE)
    ELSE IF service_payload(service, payload) # "mapping"
    THEN Raised("AttributeError", MSG_NO_ATTRIBUTE)
    ELSE IF payload.result = "nonmapping"
    THEN Raised("AttributeError", MSG_NO_ATTRIBUTE)
    ELSE IF result_code(payload) # SUCCESS_CODE
    THEN Raised("SeoulOpenAPIError",
                << "API returned error ", Str(result_code(payload)), ": ",
                   Str(result_message(payload)) >>)
    ELSE IF payload.row.tag \in {"absent", "null"} \/ payload.row.items = << >>
    THEN Raised("SeoulOpenAPIError", MSG_NO_ROW)
    ELSE IF payload.row.tag # "list"
    THEN Raised("SeoulOpenAPIError", MSG_ROW_NOT_LIST)
    ELSE Returned(payload.row.items)

\* variant: only a RESULT that carries a code can be an error
_extract_rows_code_present(service, payload) ==
    IF payload.top # "mapping"
    THEN Raised("AttributeError", MSG_NO_ATTRIBUTE)
    ELSE IF service_payload(service, payload) \in {"absent", "falsy"}
    THEN Raised("SeoulOpenAPIError", MSG_NO_SERVICE)
    ELSE IF service_payload(service, payload) # "mapping"
    THEN Raised("AttributeError", MSG_NO_ATTRIBUTE)
    ELSE IF payload.result = "nonmapping"
    THEN Raised("AttributeError", MSG_NO_ATTRIBUTE)
    ELSE IF result_code(payload) \notin {SUCCESS_CODE, PyNone}
    THEN Raised("SeoulOpenAPIError",
                << "API returned error ", Str(result_code(payload)), ": ",
                   Str(result_message(payload)) >>)
    ELSE IF payload.row.tag \in {"absent", "null"}
    THEN Raised("SeoulOpenAPIError", MSG_NO_ROW)
    ELSE IF payload.row.tag # "list"
    THEN Raised("SeoulOpenAPIError", MSG_ROW_NOT_LIST)
    ELSE Returned(payload.row.items)

\* variant: the "row" field is checked before the result code
_extract_rows_row_first(service, payload) ==
    IF payload.top # "mapping"
    THEN Raised("AttributeError", MSG_NO_ATTRIBUTE)
    ELSE IF service_payload(service, payload) \in {"absent", "falsy"}
    THEN Raised("SeoulOpenAPIError", MSG_NO_SERVICE)
    ELSE IF service_payload(service, payload) # "mapping"
    THEN Raised("AttributeError", MSG_NO_ATTRIBUTE)
    ELSE IF payload.row.tag \in {"absent", "null"}
    THEN Raised("SeoulOpenAPIError", MSG_NO_ROW)
    ELSE IF payload.row.tag # "list"
    THEN Raised("SeoulOpenAPIError", MSG_ROW_NOT_LIST)
    ELSE IF payload.result = "nonmapping"
    THEN Raised("AttributeError", MSG_NO_ATTRIBUTE)
    ELSE IF result_code(payload) # SUCCESS_CODE
    THEN Raised("SeoulOpenAPIError",
                << "API returned error ", Str(result_code(payload)), ": ",
                   Str(result_message(payload)) >>)
    ELSE Returned(payload.row.items)

_extract_rows(service, payload) ==
    IF payload.top # "mapping"
    THEN Raised("AttributeError", MSG_NO_ATTRIBUTE)
    ELSE IF service_payload(service, payload) \in {"absent", "falsy"}
    THEN Raised("SeoulOpenAPIError", MSG_NO_SERVICE)
    ELSE IF service_payload(service, payload) # "mapping"
    THEN Raised("AttributeError", MSG_NO_ATTRIBUTE)
    ELSE IF payload.result = "nonmapping"
    THEN Raised("AttributeError", MSG_NO_ATTRIBUTE)
    ELSE IF result_code(payload) # SUCCESS_CODE
    THEN Raised("SeoulOpenAPIError",
                << "API returned error ", Str(result_code(payload)), ": ",
                   Str(result_message(payload)) >>)
    ELSE IF payload.row.tag \in {"absent", "null"}
    THEN Raised("SeoulOpenAPIError", MSG_NO_ROW)
    ELSE IF payload.row.tag # "list"
    THEN Raised("SeoulOpenAPIError", MSG_ROW_NOT_LIST)
    ELSE Returned(payload.row.items)

(***************************************************************************)
(* Tables.  pd.DataFrame(rows) turns the records into a grid: the columns  *)
(* are the keys of the records in first-seen order, the values one tuple   *)
(* of cells per record.                                                    *)
(***************************************************************************)
Columns == << "MSRSTE_NM", "PM10" >>

DataFrame(rows) ==
    [columns |-> IF rows = << >> THEN << >> ELSE Columns,
     values |-> [i \in 1..Len(rows) |->
                    [j \in 1..Len(Columns) |-> rows[i][Columns[j]]]]]

NoTable == [columns |-> << "<no table>" >>, values |-> << >>]

\* df.head(n): the first n rows, or all but the last -n rows when n < 0
head(df, n) ==
    [columns |-> df.columns,
     values |-> SubSeq(df.values, 1,
                       IF n >= 0 THEN Min(n, Len(df.values))
                       ELSE Max(Len(df.values) + n, 0))]

\* the copy render_table_image draws (lines 139-142).  max_rows is an
\* integer: main passes args.max_rows, which argparse makes an int (default
\* 15), so the "max_rows is not None" test is true in every run of main.
displayed(df, max_rows) ==
    IF Len(df.values) > max_rows
    THEN head(df, max_rows)
    ELSE df

\* df.to_csv(index=False): the header line, then one line per row
to_csv(df) == << df.columns >> \o df.values

(***************************************************************************)
(* The state of one run.                                                   *)
(***************************************************************************)
VARIABLES
    pc,          \* the statement of main / fetch_table to execute next
    args,        \* the namespace parse_args returned
    requests,    \* the URLs of the HTTP GETs issued so far
    response,    \* what requests.get returned
    payload,     \* what response.json() returned
    extracted,   \* the outcome of _extract_rows
    df,          \* the table fetch_table returned
    display_df,  \* the copy render_table_image draws
    csv_file,    \* the file at args.csv
    image_file,  \* the file at args.image
    stdout,      \* the lines printed
    error,       \* the exception that ended the run
    calls        \* the functions entered so far, in order

vars == << pc, args, requests, response, payload, extracted, df, display_df,
           csv_file, image_file, stdout, error, calls >>

NoArgs ==
    [api_key |-> "", service |-> "", start |-> 0, end |-> 0,
     title |-> PyNone, max_rows |-> 0]

Titles == {PyNone, "Air quality"}

\* the namespaces parse_args can return
ArgSets ==
    [api_key : {"demo"}, service : Services, start : {DEFAULT_START_INDEX},
     end : {DEFAULT_END_INDEX}, title : Titles, max_rows : MaxRowsArgs]

NoError == [kind |-> "", msg |-> << >>]

Exception(kind, msg) == [kind |-> kind, msg |-> msg]

\* a file this run has not written: missing, or left by an earlier run
UntouchedFiles == {[state |-> "absent", content |-> << >>],
                   [state |-> "old", content |-> << >>]}

Untouched(f) == f \in UntouchedFiles

Written(f) == f.state = "new"

\* an uncaught exception leaves main: the run is over
Abort(exc) ==
    /\ pc' = "aborted"
    /\ error' = exc

Init ==
    /\ pc = "parse_args"
    /\ args = NoArgs
    /\ requests = << >>
    /\ response = NoResponse
    /\ payload = NoPayload
    /\ extracted = NoResult
    /\ df = NoTable
    /\ display_df = NoTable
    /\ csv_file \in UntouchedFiles
    /\ image_file \in UntouchedFiles
    /\ stdout = << >>
    /\ error = NoError
    /\ calls = << >>

(***************************************************************************)
(* main, line 211: parse_args.  argparse ends the process on a bad         *)
(* command line (a missing api_key, a --max-rows that is not an integer).  *)
(***************************************************************************)
ParseArgs ==
    /\ pc = "parse_args"
    /\ calls' = Append(calls, "parse_args")
    /\ \/ /\ Abort(Exception("SystemExit", << "usage" >>))
          /\ UNCHANGED args
       \/ /\ args' \in ArgSets
          /\ pc' = "fetch_table"
          /\ UNCHANGED error
    /\ UNCHANGED << requests, response, payload, extracted, df, display_df,
                    csv_file, image_file, stdout >>

(***************************************************************************)
(* fetch_table, lines 98-99: build the URL and issue the GET.  The         *)
(* transport either fails or delivers a response.                          *)
(***************************************************************************)
\* variant: a failed GET is issued a second time
HttpGetRetry ==
    /\ pc = "fetch_table"
    /\ calls' = calls \o << "fetch_table", "build_request_url", "requests.get" >>
    /\ requests' = Append(requests,
                          [url |-> build_request_url(args.api_key, args.service,
                                                     args.start, args.end, "json"),
                           timeout |-> TIMEOUT])
    /\ \/ /\ Len(requests) >= 1
          /\ Abort(Exception("ConnectionError", << "transport failure" >>))
          /\ UNCHANGED response
       \/ /\ Len(requests) < 1
          /\ UNCHANGED << pc, error, response >>
       \/ /\ response' \in Responses
          /\ pc' = "raise_for_status"
          /\ UNCHANGED error
    /\ UNCHANGED << args, payload, extracted, df, display_df, csv_file,
                    image_file, stdout >>

HttpGet ==
    /\ pc = "fetch_table"
    /\ calls' = calls \o << "fetch_table", "build_request_url", "requests.get" >>
    /\ requests' = Append(requests,
                          [url |-> build_request_url(args.api_key, args.service,
                                                     args.start, args.end, "json"),
                           timeout |-> TIMEOUT])
    /\ \/ /\ Abort(Exception("ConnectionError", << "transport failure" >>))
          /\ UNCHANGED response
       \/ /\ response' \in Responses
          /\ pc' = "raise_for_status"
          /\ UNCHANGED error
    /\ UNCHANGED << args, payload, extracted, df, display_df, csv_file,
                    image_file, stdout >>

(***************************************************************************)
(* fetch_table, line 100: Response.raise_for_status raises HTTPError for   *)
(* the client and server error statuses, 400 to 599.                       *)
(***************************************************************************)
IsErrorStatus(status) == 400 <= status /\ status < 600

\* variant: the status of the response is never looked at
RaiseForStatusSkipped ==
    /\ pc = "raise_for_status"
    /\ calls' = Append(calls, "raise_for_status")
    /\ pc' = "json"
    /\ UNCHANGED << args, requests, response, payload, extracted, df,
                    display_df, csv_file, image_file, stdout, error >>

RaiseForStatus ==
    /\ pc = "raise_for_status"
    /\ calls' = Append(calls, "raise_for_status")
    /\ IF IsErrorStatus(response.status)
       THEN Abort(Exception("HTTPError", << ToString(response.status) >>))
       ELSE pc' = "json" /\ UNCHANGED error
    /\ UNCHANGED << args, requests, response, payload, extracted, df,
                    display_df, csv_file, image_file, stdout >>

(***************************************************************************)
(* fetch_table, line 102: decode the body.  A body that is not JSON raises *)
(* the decode error; a JSON body decodes to one of the payloads.           *)
(***************************************************************************)
DecodeJson ==
    /\ pc = "json"
    /\ calls' = Append(calls, "json")
    /\ IF response.json
       THEN /\ payload' \in Payloads
            /\ pc' = "_extract_rows"
            /\ UNCHANGED error
       ELSE /\ Abort(Exception("JSONDecodeError", << "not JSON" >>))
            /\ UNCHANGED payload
    /\ UNCHANGED << args, requests, response, extracted, df, display_df,
                    csv_file, image_file, stdout >>

(***************************************************************************)
(* fetch_table, line 103: _extract_rows(service, payload).                 *)
(***************************************************************************)
ExtractRows ==
    /\ pc = "_extract_rows"
    /\ calls' = Append(calls, "_extract_rows")
    /\ extracted' = _extract_rows(args.service, payload)
    /\ IF extracted'.exc = ""
       THEN pc' = "DataFrame" /\ UNCHANGED error
       ELSE Abort(Exception(extracted'.exc, extracted'.msg))
    /\ UNCHANGED << args, requests, response, payload, df, display_df,
                    csv_file, image_file, stdout >>

(***************************************************************************)
(* fetch_table, line 105: build the table and return it to main.           *)
(***************************************************************************)
BuildTable ==
    /\ pc = "DataFrame"
    /\ calls' = Append(calls, "DataFrame")
    /\ df' = DataFrame(extracted.rows)
    /\ pc' = "save_csv"
    /\ UNCHANGED << args, requests, response, payload, extracted, display_df,
                    csv_file, image_file, stdout, error >>

(***************************************************************************)
(* main, line 213: save_csv.  mkdir can fail before the file is touched;   *)
(* to_csv can fail after it has opened (and truncated) the file.           *)
(***************************************************************************)
\* variant: a failed export is caught and the run goes on
SaveCsvKeepGoing ==
    /\ pc = "save_csv"
    /\ calls' = Append(calls, "save_csv")
    /\ \/ /\ error' = Exception("OSError", << "to_csv" >>)
          /\ pc' = "render_table_image"
          /\ csv_file' \in {csv_file, [state |-> "partial", content |-> << >>]}
       \/ /\ csv_file' = [state |-> "new", content |-> to_csv(df)]
          /\ pc' = "render_table_image"
          /\ UNCHANGED error
    /\ UNCHANGED << args, requests, response, payload, extracted, df,
                    display_df, image_file, stdout >>

SaveCsv ==
    /\ pc = "save_csv"
    /\ calls' = Append(calls, "save_csv")
    /\ \/ /\ Abort(Exception("OSError", << "mkdir" >>))
          /\ UNCHANGED csv_file
       \/ /\ Abort(Exception("OSError", << "to_csv" >>))
          /\ csv_file' \in {csv_file, [state |-> "partial", content |-> << >>]}
       \/ /\ csv_file' = [state |-> "new", content |-> to_csv(df)]
          /\ pc' = "render_table_image"
          /\ UNCHANGED error
    /\ UNCHANGED << args, requests, response, payload, extracted, df,
                    display_df, image_file, stdout >>

(***************************************************************************)
(* main, line 214: render_table_image.  mkdir can fail before anything is  *)
(* drawn; drawing the table (matplotlib may refuse a grid without cells)   *)
(* or saving the figure (unknown file suffix, file system) can fail after  *)
(* the copy was made.                                                      *)
(***************************************************************************)
Figure(title, table) ==
    [title |-> IF title = PyNone THEN << >> ELSE << title >>,
     colLabels |-> table.columns,
     cellText |-> table.values]

\* variant: the table itself is truncated, not a copy of it
RenderTableImageInPlace ==
    /\ pc = "render_table_image"
    /\ calls' = Append(calls, "render_table_image")
    /\ \/ /\ Abort(Exception("OSError", << "mkdir" >>))
          /\ UNCHANGED << df, display_df, image_file >>
       \/ /\ df' = displayed(df, args.max_rows)
          /\ display_df' = df'
          /\ \/ /\ Abort(Exception("RenderError", << "savefig" >>))
                /\ image_file' \in {image_file,
                                    [state |-> "partial", content |-> << >>]}
             \/ /\ image_file' =
                      [state |-> "new",
                       content |-> << Figure(args.title, display_df') >>]
                /\ pc' = "print_csv"
                /\ UNCHANGED error
    /\ UNCHANGED << args, requests, response, payload, extracted,
                    csv_file, stdout >>

\* variant: a failure after the figure was saved (closing the figure)
RenderTableImageFailAfterSave ==
    /\ pc = "render_table_image"
    /\ calls' = Append(calls, "render_table_image")
    /\ \/ /\ Abort(Exception("OSError", << "mkdir" >>))
          /\ UNCHANGED << display_df, image_file >>
       \/ /\ display_df' = displayed(df, args.max_rows)
          /\ image_file' =
                [state |-> "new",
                 content |-> << Figure(args.title, display_df') >>]
          /\ \/ Abort(Exception("RenderError", << "close" >>))
             \/ pc' = "print_csv" /\ UNCHANGED error
    /\ UNCHANGED << args, requests, response, payload, extracted, df,
                    csv_file, stdout >>

RenderTableImage ==
    /\ pc = "render_table_image"
    /\ calls' = Append(calls, "render_table_image")
    /\ \/ /\ Abort(Exception("OSError", << "mkdir" >>))
          /\ UNCHANGED << display_df, image_file >>
       \/ /\ display_df' = displayed(df, args.max_rows)
          /\ \/ /\ Abort(Exception("RenderError", << "savefig" >>))
                /\ image_file' \in {image_file,
                                    [state |-> "partial", content |-> << >>]}
             \/ /\ image_file' =
                      [state |-> "new",
                       content |-> << Figure(args.title, display_df') >>]
                /\ pc' = "print_csv"
                /\ UNCHANGED error
    /\ UNCHANGED << args, requests, response, payload, extracted, df,
                    csv_file, stdout >>

(***************************************************************************)
(* main, lines 215-216: the two confirmations.                             *)
(***************************************************************************)
PrintCsv ==
    /\ pc = "print_csv"
    /\ calls' = Append(calls, "print")
    /\ stdout' = Append(stdout, "Saved CSV to args.csv")
    /\ pc' = "print_image"
    /\ UNCHANGED << args, requests, response, payload, extracted, df,
                    display_df, csv_file, image_file, error >>

PrintImage ==
    /\ pc = "print_image"
    /\ calls' = Append(calls, "print")
    /\ stdout' = Append(stdout, "Saved image to args.image")
    /\ pc' = "done"
    /\ UNCHANGED << args, requests, response, payload, extracted, df,
                    display_df, csv_file, image_file, error >>

Next ==
    \/ ParseArgs
    \/ HttpGet
    \/ RaiseForStatus
    \/ DecodeJson
    \/ ExtractRows
    \/ BuildTable
    \/ SaveCsv
    \/ RenderTableImage
    \/ PrintCsv
    \/ PrintImage

Spec == Init /\ [][Next]_vars

TypeOK ==
    /\ pc \in {"parse_args", "fetch_table", "raise_for_status", "json",
               "_extract_rows", "DataFrame", "save_csv", "render_table_image",
               "print_csv", "print_image", "done", "aborted"}
    /\ args \in ArgSets \cup {NoArgs}
    /\ response \in Responses \cup {NoResponse}
    /\ payload \in Payloads \cup {NoPayload}
    /\ Len(stdout) <= 2

(***************************************************************************)
(* Vocabulary of the properties.                                           *)
(***************************************************************************)
Called(f) == f \in Range(calls)

MainOrder ==
    << "parse_args", "fetch_table", "save_csv", "render_table_image",
       "print", "print" >>

MainCalls == SelectSeq(calls, LAMBDA c : c \in Range(MainOrder))

FetchOrder ==
    << "fetch_table", "build_request_url", "requests.get", "raise_for_status",
       "json", "_extract_rows", "DataFrame" >>

FetchCalls == SelectSeq(calls, LAMBDA c : c \in Range(FetchOrder))

FetchErrors ==
    {"ConnectionError", "HTTPError", "JSONDecodeError", "SeoulOpenAPIError",
     "AttributeError"}

\* the payload is the nested mapping the API documents: a JSON object whose
\* service entry, when truthy, is an object, and whose RESULT entry, when
\* present, is an object
NestedMapping(service, p) ==
    /\ p.top = "mapping"
    /\ service_payload(service, p) # "nonmapping"
    /\ p.result # "nonmapping"

\* the payload has a service entry whose result code is not the success code
\* (a RESULT without CODE and a missing RESULT count: the code is None)
NonSuccess(service, p) ==
    /\ NestedMapping(service, p)
    /\ service_payload(service, p) = "mapping"
    /\ result_code(p) # SUCCESS_CODE

\* the payload has a service entry with the success code and a list of rows
Success(service, p) ==
    /\ NestedMapping(service, p)
    /\ service_payload(service, p) = "mapping"
    /\ result_code(p) = SUCCESS_CODE
    /\ p.row.tag = "list"

\* the error kind a caller reads off the outcome of _extract_rows
Outcome(r) ==
    IF r.exc = "" THEN "success"
    ELSE IF r.exc # "SeoulOpenAPIError" THEN "other"
    ELSE IF r.msg = MSG_NO_SERVICE THEN "service payload missing"
    ELSE IF r.msg = MSG_NO_ROW THEN "missing row field"
    ELSE IF r.msg = MSG_ROW_NOT_LIST THEN "row field not a list"
    ELSE IF r.msg[1] = "API returned error " THEN "API error"
    ELSE "other"

(***************************************************************************)
(* C1: in every run of main the steps happen in the order parse_args,      *)
(* fetch_table, save_csv, render_table_image, print, print; a step starts  *)
(* only when the previous one completed; a failure aborts the run, and     *)
(* then no confirmation is printed and no file of a step that was not      *)
(* reached is written.                                                     *)
(***************************************************************************)
C1_FixedOrder ==
    /\ IsPrefix(MainCalls, MainOrder)
    /\ Called("save_csv") => Called("DataFrame") /\ df # NoTable
    /\ Called("render_table_image") => Written(csv_file)
    /\ Called("print") => Written(csv_file) /\ Written(image_file)
    /\ error # NoError <=> pc = "aborted"
    /\ pc = "aborted" =>
          /\ stdout = << >>
          /\ ~Called("print")
          /\ ~Called("save_csv") => Untouched(csv_file)
          /\ ~Called("render_table_image") => Untouched(image_file)

C1_Witness ==
    /\ pc = "aborted"
    /\ Called("save_csv")
    /\ ~Called("render_table_image")
    /\ Untouched(image_file)

(***************************************************************************)
(* C2: when the decoded response carries a service payload whose           *)
(* RESULT.CODE is not "INFO-000", the run aborts before any file is        *)
(* written, and the error message includes the remote code and the remote  *)
(* message.                                                                *)
(***************************************************************************)
C2_ErrorPayloadAborts ==
    (/\ payload # NoPayload
     /\ NonSuccess(args.service, payload)
     /\ payload.code # PyNone)
    =>
    /\ pc \in {"_extract_rows", "aborted"}
    /\ Untouched(csv_file)
    /\ Untouched(image_file)
    /\ stdout = << >>
    /\ pc = "aborted" =>
          /\ payload.code \in Range(error.msg)
          /\ payload.message # PyNone => payload.message \in Range(error.msg)

C2_Witness ==
    /\ pc = "aborted"
    /\ payload.code = "INFO-200"
    /\ payload.message = "No rows"
    /\ error.kind = "SeoulOpenAPIError"
    /\ Untouched(csv_file)
    /\ Untouched(image_file)

(***************************************************************************)
(* C3: for a payload whose result code is "INFO-000" and whose "row" is a  *)
(* list (the empty list included), _extract_rows returns exactly that      *)
(* list: the same records in the same order.                               *)
(***************************************************************************)
C3_ReturnsRows ==
    (Called("_extract_rows") /\ Success(args.service, payload))
    => extracted = Returned(payload.row.items)

C3_Witness ==
    /\ Called("_extract_rows")
    /\ Success(args.service, payload)
    /\ Len(extracted.rows) >= 2
    /\ extracted.rows[1] # extracted.rows[2]

ErrorKindsDistinct ==
    /\ Cardinality({MSG_NO_SERVICE, MSG_NO_ROW, MSG_ROW_NOT_LIST}) = 3
    /\ \A m \in {MSG_NO_SERVICE, MSG_NO_ROW, MSG_ROW_NOT_LIST} :
          m[1] # "API returned error "

\* the decision as stated: a "row" that is present but not a list, JSON
\* null included, is "row field not a list"
DecisionAsStated(service, p) ==
    IF service_payload(service, p) \in {"absent", "falsy"}
    THEN "service payload missing"
    ELSE IF result_code(p) # SUCCESS_CODE THEN "API error"
    ELSE IF p.row.tag = "absent" THEN "missing row field"
    ELSE IF p.row.tag # "list" THEN "row field not a list"
    ELSE "success"

\* the decision with a null "row" counted as a missing one
DecisionNullIsMissing(service, p) ==
    IF service_payload(service, p) \in {"absent", "falsy"}
    THEN "service payload missing"
    ELSE IF result_code(p) # SUCCESS_CODE THEN "API error"
    ELSE IF p.row.tag \in {"absent", "null"} THEN "missing row field"
    ELSE IF p.row.tag # "list" THEN "row field not a list"
    ELSE "success"

\* C5 as stated
C5_FirstCheckDecides ==
    /\ ErrorKindsDistinct
    /\ (Called("_extract_rows") /\ NestedMapping(args.service, payload))
          => Outcome(extracted) = DecisionAsStated(args.service, payload)

\* C5 amended: a "row" that is absent or null is the missing row field; a
\* "row" that is neither null nor a list is the row field that is not a list
C5_FirstCheckDecidesNullMissing ==
    /\ ErrorKindsDistinct
    /\ (Called("_extract_rows") /\ NestedMapping(args.service, payload))
          => Outcome(extracted) = DecisionNullIsMissing(args.service, payload)

\* an error code and no "row" field: the API error is reported
C5_Witness ==
    /\ Called("_extract_rows")
    /\ NestedMapping(args.service, payload)
    /\ payload.code = "ERROR-500"
    /\ payload.row.tag = "absent"
    /\ Outcome(extracted) = "API error"

(***************************************************************************)
(* C6: a run produces no partial output: when it ends, either both the     *)
(* CSV file and the image file were written or neither was.                *)
(***************************************************************************)
C6_NoPartialOutput ==
    pc \in {"done", "aborted"} =>
        \/ Written(csv_file) /\ Written(image_file)
        \/ Untouched(csv_file) /\ Untouched(image_file)

\* C6 amended: a run that fails before save_csv leaves both files alone; a
\* run that fails in save_csv leaves the image alone and no complete CSV; a
\* run that fails in render_table_image leaves the complete CSV and no
\* complete image; only a run that completes leaves both files written
C6_OutputByStage ==
    /\ pc = "done" => Written(csv_file) /\ Written(image_file)
    /\ pc = "aborted" /\ ~Called("save_csv")
          => Untouched(csv_file) /\ Untouched(image_file)
    /\ pc = "aborted" /\ Called("save_csv") /\ ~Called("render_table_image")
          => ~Written(csv_file) /\ Untouched(image_file)
    /\ pc = "aborted" /\ Called("render_table_image")
          => Written(csv_file) /\ ~Written(image_file)

C6_Witness ==
    /\ pc = "aborted"
    /\ Called("render_table_image")
    /\ Written(csv_file)
    /\ Untouched(image_file)

(***************************************************************************)
(* C7: for every table of N rows and every integer max_rows, negative      *)
(* ones included, the grid render_table_image draws has the columns of     *)
(* the table and its first min(N, max_rows) rows (none when that is not    *)
(* positive), in their order.                                              *)
(***************************************************************************)
C7_FirstMaxRows ==
    Written(image_file) =>
        /\ image_file.content[1].colLabels = df.columns
        /\ image_file.content[1].cellText =
              SubSeq(df.values, 1, Min(Len(df.values), args.max_rows))

(***************************************************************************)
(* C8: a run issues at most one HTTP GET, and exactly one when the         *)
(* arguments parse; after a failed fetch no second request is made and     *)
(* the run is over.                                                        *)
(***************************************************************************)
C8_OneRequest ==
    /\ Len(requests) <= 1
    /\ args = NoArgs => requests = << >>
    /\ args # NoArgs /\ pc # "fetch_table" => Len(requests) = 1
    /\ error.kind \in FetchErrors =>
          /\ pc = "aborted"
          /\ Len(requests) = 1
          /\ df = NoTable

C8_Witness ==
    /\ pc = "aborted"
    /\ error.kind = "ConnectionError"
    /\ Len(requests) = 1

(***************************************************************************)
(* C9: fetch_table reports the first stage that fails, in the order        *)
(* transport, HTTP status, JSON decode, extraction: a response with a      *)
(* failing status is an HTTP error and its body is neither decoded nor     *)
(* passed to _extract_rows; a body that is not JSON is a decode error and  *)
(* _extract_rows is not called; the API error needs a response of passing  *)
(* status with a decodable body; the table is built only when all four     *)
(* stages succeeded.  failing is the set of failing statuses.              *)
(***************************************************************************)
StagesInOrder(failing) ==
    /\ IsPrefix(FetchCalls, FetchOrder)
    /\ error.kind = "ConnectionError" =>
          response = NoResponse /\ ~Called("raise_for_status")
    /\ Called("raise_for_status") /\ response.status \in failing =>
          /\ error.kind = "HTTPError"
          /\ ~Called("json")
          /\ ~Called("_extract_rows")
          /\ payload = NoPayload
    /\ Called("json") /\ ~response.json =>
          /\ error.kind = "JSONDecodeError"
          /\ ~Called("_extract_rows")
    /\ error.kind = "SeoulOpenAPIError" =>
          /\ response.status \notin failing
          /\ response.json
    /\ df # NoTable =>
          /\ response # NoResponse
          /\ response.status \notin failing
          /\ response.json
          /\ extracted.exc = ""

C10_TableNeverMutated ==
    /\ [][df # NoTable => df' = df]_vars
    /\ [](Written(csv_file) => csv_file.content = to_csv(df))
    /\ [](Written(image_file) =>
            /\ df = DataFrame(extracted.rows)
            /\ image_file.content[1].colLabels = df.columns
            /\ image_file.content[1].cellText = display_df.values
            /\ \A i \in 1..Len(display_df.values) :
                  \E j \in 1..Len(df.values) :
                      display_df.values[i] = df.values[j])

\* a completed run whose image shows fewer rows than the table has
C10_Witness ==
    /\ pc = "done"
    /\ Len(display_df.values) < Len(df.values)
    /\ Len(df.values) = Len(extracted.rows)

====
